---------------------------- MODULE Spec2Model ----------------------------
(***************************************************************************)
(* fn_math (include/math-functions.hpp): scalar activation functions,      *)
(* templated over the floating-point type T.                               *)
(*                                                                         *)
(* A floating-point value is modelled as a record                          *)
(*     [cls |-> "fin", n |-> k]   the finite number k * 2^-FracBits        *)
(*     [cls |-> "inf", n |-> s]   s = 1: +infinity, s = -1: -infinity      *)
(*     [cls |-> "nan", n |-> 0]   not-a-number                             *)
(* in a binary format with a given number of significand bits, gradual     *)
(* underflow to multiples of 2^-FracBits and overflow to infinity at       *)
(* 2^(MaxExp+1).  Every arithmetic operation rounds its exact result to    *)
(* the nearest value of the format, ties to even, as IEEE-754 does.  Two   *)
(* formats are modelled: "double" (the type of the literals 0.01, 1.0507,  *)
(* 1.67326 and the default T) and "float" (a narrower T).  The signed zero *)
(* is not distinguished: -0.0 and 0.0 compare equal in every test the      *)
(* functions make.                                                         *)
(***************************************************************************)
EXTENDS Integers, Sequences, FiniteSets, TLC

VARIABLES
    op,     \* the function called last ("none" before the first call)
    T,      \* the template argument of that call: "float" or "double"
    args,   \* the scalar arguments of that call, in parameter order
    out,    \* what the call returned
    vec     \* the caller's std::vector<T>, the argument of MaxoutFn

vars == <<op, T, args, out, vec>>

---------------------------------------------------------------------------
(* Bounds of the model.                                                    *)

\* significand bits of the format standing for double (53 in IEEE binary64)
MantBitsDouble == 8
\* significand bits of the format standing for float (24 in IEEE binary32)
MantBitsFloat == 5
\* the smallest positive value of either format is 2^-FracBits
FracBits == 14
\* a result of magnitude 2^(MaxExp+1) or more overflows to infinity
MaxExp == 10
\* scalar inputs are the halves i/2, i \in -MaxX2..MaxX2, and the specials
MaxX2 == 16
\* the coefficients a, b (and Heaviside's x) are the halves i/2, i \in -MaxCoef2..MaxCoef2
MaxCoef2 == 2
\* the caller's vector holds at most MaxLen elements, each in 1..MaxElem
MaxLen == 3
MaxElem == 2

---------------------------------------------------------------------------
(* Values.                                                                 *)

Fin(k) == [cls |-> "fin", n |-> k]
PInf == [cls |-> "inf", n |-> 1]
NInf == [cls |-> "inf", n |-> -1]
NaN == [cls |-> "nan", n |-> 0]
Zero == Fin(0)

IsFin(v) == v.cls = "fin"
IsNaN(v) == v.cls = "nan"

Types == {"float", "double"}
MantBits(t) == IF t = "float" THEN MantBitsFloat ELSE MantBitsDouble

RECURSIVE Pow2(_)
Pow2(k) == IF k <= 0 THEN 1 ELSE 2 * Pow2(k - 1)

Abs(k) == IF k < 0 THEN -k ELSE k
Sgn(k) == IF k < 0 THEN -1 ELSE IF k > 0 THEN 1 ELSE 0
Max2(a, b) == IF a >= b THEN a ELSE b

\* the number of bits of m >= 0
RECURSIVE BitLen(_)
BitLen(m) == IF m <= 0 THEN 0 ELSE 1 + BitLen(m \div 2)

\* the number of trailing zero bits of m > 0
RECURSIVE TrailingZeros(_)
TrailingZeros(m) == IF m = 0 \/ m % 2 = 1 THEN 0 ELSE 1 + TrailingZeros(m \div 2)

\* m / 2^d rounded to the nearest integer, ties to even (m >= 0, d >= 0)
RoundHalfEven(m, d) ==
    IF d = 0 THEN m
    ELSE IF d > BitLen(m) + 1 THEN 0
    ELSE LET q == m \div Pow2(d)
             r == m % Pow2(d)
             h == Pow2(d - 1)
         IN  IF r > h \/ (r = h /\ q % 2 = 1) THEN q + 1 ELSE q

\* s * m * 2^e (s the sign, m >= 0) rounded to the format of p significand bits
RoundTo(s, m, e, p) ==
    IF m = 0 \/ s = 0 THEN Zero
    ELSE LET bl == BitLen(m)
             q  == Max2(e + bl - p, -FracBits)
             mr == IF q <= e THEN m ELSE RoundHalfEven(m, q - e)
             qe == IF q <= e THEN e ELSE q
         IN  IF mr = 0 THEN Zero
             ELSE IF BitLen(mr) + qe > MaxExp + 1
                  THEN [cls |-> "inf", n |-> s]
                  ELSE Fin(s * mr * Pow2(qe + FracBits))

\* conversion of a value to type t (what passing or returning it as a T does)
Convert(t, v) ==
    IF IsFin(v) THEN RoundTo(Sgn(v.n), Abs(v.n), -FracBits, MantBits(t)) ELSE v


---------------------------------------------------------------------------
(* Comparison and arithmetic of type t.                                    *)

\* a < b: false when either is NaN
Lt(a, b) ==
    IF IsNaN(a) \/ IsNaN(b) THEN FALSE
    ELSE IF a.cls = "inf" THEN a.n = -1 /\ b # a
    ELSE IF b.cls = "inf" THEN b.n = 1
    ELSE a.n < b.n

Gt(a, b) == Lt(b, a)

\* a == b as the language compares: NaN equals nothing
Eq(a, b) == ~IsNaN(a) /\ ~IsNaN(b) /\ a = b

Le(a, b) == Lt(a, b) \/ Eq(a, b)
Ge(a, b) == Le(b, a)

SignOf(v) == IF IsFin(v) THEN Sgn(v.n) ELSE v.n

\* a + b in type t
Add(t, a, b) ==
    IF IsNaN(a) \/ IsNaN(b) THEN NaN
    ELSE IF a.cls = "inf" /\ b.cls = "inf" THEN (IF a.n = b.n THEN a ELSE NaN)
    ELSE IF a.cls = "inf" THEN a
    ELSE IF b.cls = "inf" THEN b
    ELSE RoundTo(Sgn(a.n + b.n), Abs(a.n + b.n), -FracBits, MantBits(t))

Neg(a) == IF IsNaN(a) THEN NaN ELSE [cls |-> a.cls, n |-> -a.n]

\* a - b in type t
Sub(t, a, b) == Add(t, a, Neg(b))

\* a * b in type t; the exact product of the two significands is rounded once
Mul(t, a, b) ==
    IF IsNaN(a) \/ IsNaN(b) THEN NaN
    ELSE IF a.cls = "inf" \/ b.cls = "inf"
         THEN (IF SignOf(a) * SignOf(b) = 0 THEN NaN
               ELSE [cls |-> "inf", n |-> SignOf(a) * SignOf(b)])
    ELSE LET za == TrailingZeros(Abs(a.n))
             zb == TrailingZeros(Abs(b.n))
             ma == Abs(a.n) \div Pow2(za)
             mb == Abs(b.n) \div Pow2(zb)
         IN  RoundTo(Sgn(a.n) * Sgn(b.n), ma * mb,
                     za + zb - 2 * FracBits, MantBits(t))

\* the first k binary digits of num/den (0 <= num < den) and the remainder left
RECURSIVE LongDiv(_, _, _)
LongDiv(num, den, k) ==
    IF k = 0 THEN [q |-> 0, r |-> num]
    ELSE LET prev == LongDiv(num, den, k - 1)
             bit  == IF 2 * prev.r >= den THEN 1 ELSE 0
         IN  [q |-> 2 * prev.q + bit, r |-> 2 * prev.r - bit * den]

\* the decimal literal ip + num/den, a double: the nearest value of that format
Literal(ip, num, den) ==
    LET d      == LongDiv(num, den, FracBits + 1)
        sticky == IF d.r # 0 THEN 1 ELSE 0
        m      == 2 * (ip * Pow2(FracBits + 1) + d.q) + sticky
    IN  RoundTo(1, m, -(FracBits + 2), MantBitsDouble)

\* an integer literal converted to a floating-point type (exact)
IntLit(k) == Fin(k * Pow2(FracBits))

---------------------------------------------------------------------------
(* std::exp and std::log of <cmath>, computed as a math library does: the  *)
(* argument is reduced, a short series is summed in fixed point with       *)
(* FracBits fraction bits, and the result is rounded to the format.  The   *)
(* result is within one unit in the last place of the exact one.           *)

\* a / b rounded to the nearest integer (b > 0)
DivRound(a, b) == (2 * a + b) \div (2 * b)

\* ln 2 = 0.693147..., in units of 2^-(FracBits + 8)
Ln2Ext == LongDiv(693147, 1000000, FracBits + 8).q

\* k * ln 2 in units of 2^-FracBits
TimesLn2(k) == DivRound(k * Ln2Ext, Pow2(8))

\* 1 + (r/1)(1 + (r/2)(1 + ... (1 + r/deg))) from term j on: e^r for |r| < 1/2,
\* r and the result in units of 2^-FracBits
RECURSIVE ExpSeries(_, _, _)
ExpSeries(r, j, deg) ==
    IF j > deg THEN Pow2(FracBits)
    ELSE Pow2(FracBits)
         + DivRound(r * ExpSeries(r, j + 1, deg), j * Pow2(FracBits))

\* std::exp(x) in type t
Exp(t, x) ==
    IF IsNaN(x) THEN NaN
    ELSE IF x.cls = "inf" THEN (IF x.n = 1 THEN PInf ELSE Zero)
    ELSE LET k == DivRound(x.n * Pow2(8), Ln2Ext)
             r == x.n - TimesLn2(k)
         IN  RoundTo(1, ExpSeries(r, 1, 8), k - FracBits, MantBits(t))

\* z(1 + z2/3 + z2^2/5 + ...) = atanh(z) from the term of divisor d on, z2 = z*z,
\* all in units of 2^-FracBits
RECURSIVE AtanhSeries(_, _, _)
AtanhSeries(z2, d, last) ==
    IF d > last THEN 0
    ELSE DivRound(Pow2(FracBits), d)
         + DivRound(z2 * AtanhSeries(z2, d + 2, last), Pow2(FracBits))

\* std::log(y) in type t
Log(t, y) ==
    IF IsNaN(y) \/ SignOf(y) = -1 THEN NaN
    ELSE IF y.cls = "inf" THEN PInf
    ELSE IF y.n = 0 THEN NInf
    ELSE LET bl  == BitLen(y.n)
             m0  == IF bl - 1 <= FracBits
                    THEN y.n * Pow2(FracBits - bl + 1)
                    ELSE y.n \div Pow2(bl - 1 - FracBits)
             \* y = m * 2^e with m in [3/4, 3/2)
             big == 2 * m0 >= 3 * Pow2(FracBits)
             m   == IF big THEN m0 \div 2 ELSE m0
             e   == IF big THEN bl - FracBits ELSE bl - 1 - FracBits
             z   == DivRound((m - Pow2(FracBits)) * Pow2(FracBits),
                             m + Pow2(FracBits))
             z2  == DivRound(z * z, Pow2(FracBits))
             lnm == DivRound(2 * z * AtanhSeries(z2, 1, 9), Pow2(FracBits))
             l   == TimesLn2(e) + lnm
         IN  RoundTo(Sgn(l), Abs(l), -FracBits, MantBits(t))

---------------------------------------------------------------------------
(* The functions of namespace fn_math.  t is the template argument T.      *)

\* what a call returns when it is not a floating-point value
UShort(k) == [cls |-> "ushort", n |-> k]
None == [cls |-> "none", n |-> 0]
\* the call is ill-formed: the build stops at it and no value is returned
IllFormed == [cls |-> "ill_formed", n |-> 0]

\* the literals of the header, each of type double
Lit_0_01 == Literal(0, 1, 100)
Lit_1_0507 == Literal(1, 507, 10000)
Lit_1_67326 == Literal(1, 67326, 100000)

\* a mutant of BinaryStepFn: zero on the wrong side, x <= 0 ? 0 : 1
BinaryStepFn_ZeroBelow(t, x) == IF Le(x, Zero) THEN UShort(0) ELSE UShort(1)

\* return x < 0 ? 0 : 1;   (the result type is unsigned short)
BinaryStepFn(t, x) == IF Lt(x, Zero) THEN UShort(0) ELSE UShort(1)

\* a mutant of HeavisideFn: a * x + b >= 0 ? 1 : 0
HeavisideFn_AtLeast(t, a, x, b) ==
    IF Ge(Add(t, Mul(t, a, x), b), Zero) THEN IntLit(1) ELSE Zero

\* return (a * x + b > 0) ? 1 : 0;
HeavisideFn(t, a, x, b) ==
    IF Gt(Add(t, Mul(t, a, x), b), Zero) THEN IntLit(1) ELSE Zero

\* a mutant of LeakyRectifiedLinearUnitFn: the slope written 0.1
LeakyRectifiedLinearUnitFn_Slope(t, x) ==
    Convert(t, IF Lt(x, Zero) THEN Mul("double", Literal(0, 1, 10), x) ELSE x)

\* return x < 0 ? 0.01 * x : x;   (0.01 * x is a double; the return converts)
LeakyRectifiedLinearUnitFn(t, x) ==
    Convert(t, IF Lt(x, Zero) THEN Mul("double", Lit_0_01, x) ELSE x)

\* return std::max_element(x.begin, x.end);
\* x.begin and x.end name member functions and are not calls: no overload of
\* std::max_element accepts them, and the iterator it returns would not
\* convert to T.  Every instantiation is ill-formed, whatever x holds.
MaxoutFn(t, x) == IllFormed

\* a mutant of VectorAfterMaxout: the vector taken by reference and sorted
\* in place, greatest first, to find its maximum
VectorAfterMaxout_Sorted(v) == SortSeq(v, LAMBDA a, b : Gt(a, b))

\* x is a by-value parameter: the function works on its own copy, and the
\* caller's vector is what it was
VectorAfterMaxout(v) == v

\* return x < 0 ? a * x : x;
ParametricRectifiedLinearUnitFn(t, a, x) ==
    IF Lt(x, Zero) THEN Mul(t, a, x) ELSE x

\* a mutant of RectifiedLinearUnitFn: the test reversed, x < 0 ? x : 0
RectifiedLinearUnitFn_Reversed(t, x) == IF Lt(x, Zero) THEN x ELSE Zero

\* return x > 0 ? x : 0;
RectifiedLinearUnitFn(t, x) == IF Gt(x, Zero) THEN x ELSE Zero

\* a mutant of ScaledExponentialLinearUnitFn: alpha, not lambda, scales the
\* linear branch
ScaledExponentialLinearUnitFn_Alpha(t, x) ==
    Convert(t, IF Lt(x, Zero)
               THEN Mul("double", Mul("double", Lit_1_0507, Lit_1_67326),
                        Sub(t, Exp(t, x), IntLit(1)))
               ELSE Mul("double", Lit_1_67326, x))

\* return (x < 0) ? 1.0507 * 1.67326 * (std::exp(x) - 1) : 1.0507 * x;
\* std::exp(x) - 1 is a T; the products are doubles; the return converts
ScaledExponentialLinearUnitFn(t, x) ==
    Convert(t, IF Lt(x, Zero)
               THEN Mul("double", Mul("double", Lit_1_0507, Lit_1_67326),
                        Sub(t, Exp(t, x), IntLit(1)))
               ELSE Mul("double", Lit_1_0507, x))

\* a mutant of SoftplusFn: the 1 left out, std::log(std::exp(x))
SoftplusFn_NoOne(t, x) == Log(t, Exp(t, x))

\* return std::log(1 + std::exp(x));
SoftplusFn(t, x) == Log(t, Add(t, IntLit(1), Exp(t, x)))

---------------------------------------------------------------------------
(* The caller: it builds a vector, calls one function of the library with  *)
(* arguments of type T, and takes the result.                              *)

\* the argument values of type t a call is made with
Half(i) == Fin(i * Pow2(FracBits - 1))
Specials == {PInf, NInf, NaN}
XValues(t) == {Convert(t, Half(i)) : i \in -MaxX2..MaxX2} \cup Specials
CoefValues(t) == {Convert(t, Half(i)) : i \in -MaxCoef2..MaxCoef2} \cup {NaN}
SlopeValues(t) == CoefValues(t) \cup {Convert(t, Lit_0_01)}

Init ==
    /\ op = "none"
    /\ T = "double"
    /\ args = << >>
    /\ out = None
    /\ vec = << >>

\* the caller appends an element to its vector
PushBack ==
    /\ op = "none"
    /\ Len(vec) < MaxLen
    /\ \E e \in 1..MaxElem : vec' = Append(vec, IntLit(e))
    /\ UNCHANGED <<op, T, args, out>>

\* the caller empties its vector
Clear ==
    /\ op = "none"
    /\ vec # << >>
    /\ vec' = << >>
    /\ UNCHANGED <<op, T, args, out>>

CallBinaryStep ==
    /\ op = "none"
    /\ \E t \in Types : \E x \in XValues(t) :
          /\ T' = t
          /\ args' = <<x>>
          /\ out' = BinaryStepFn(t, x)
    /\ op' = "BinaryStepFn"
    /\ UNCHANGED vec

CallHeaviside ==
    /\ op = "none"
    /\ \E t \in Types : \E a \in CoefValues(t), x \in CoefValues(t), b \in CoefValues(t) :
          /\ T' = t
          /\ args' = <<a, x, b>>
          /\ out' = HeavisideFn(t, a, x, b)
    /\ op' = "HeavisideFn"
    /\ UNCHANGED vec

CallLeakyRectifiedLinearUnit ==
    /\ op = "none"
    /\ \E t \in Types : \E x \in XValues(t) :
          /\ T' = t
          /\ args' = <<x>>
          /\ out' = LeakyRectifiedLinearUnitFn(t, x)
    /\ op' = "LeakyRectifiedLinearUnitFn"
    /\ UNCHANGED vec

CallMaxout ==
    /\ op = "none"
    /\ \E t \in Types :
          /\ T' = t
          /\ out' = MaxoutFn(t, vec)
    /\ args' = << >>
    /\ vec' = VectorAfterMaxout(vec)
    /\ op' = "MaxoutFn"

CallParametricRectifiedLinearUnit ==
    /\ op = "none"
    /\ \E t \in Types : \E a \in SlopeValues(t), x \in XValues(t) :
          /\ T' = t
          /\ args' = <<a, x>>
          /\ out' = ParametricRectifiedLinearUnitFn(t, a, x)
    /\ op' = "ParametricRectifiedLinearUnitFn"
    /\ UNCHANGED vec

CallRectifiedLinearUnit ==
    /\ op = "none"
    /\ \E t \in Types : \E x \in XValues(t) :
          /\ T' = t
          /\ args' = <<x>>
          /\ out' = RectifiedLinearUnitFn(t, x)
    /\ op' = "RectifiedLinearUnitFn"
    /\ UNCHANGED vec

CallScaledExponentialLinearUnit ==
    /\ op = "none"
    /\ \E t \in Types : \E x \in XValues(t) :
          /\ T' = t
          /\ args' = <<x>>
          /\ out' = ScaledExponentialLinearUnitFn(t, x)
    /\ op' = "ScaledExponentialLinearUnitFn"
    /\ UNCHANGED vec

CallSoftplus ==
    /\ op = "none"
    /\ \E t \in Types : \E x \in XValues(t) :
          /\ T' = t
          /\ args' = <<x>>
          /\ out' = SoftplusFn(t, x)
    /\ op' = "SoftplusFn"
    /\ UNCHANGED vec

\* the caller has taken the result; nothing of the call is left
Return ==
    /\ op # "none"
    /\ op' = "none"
    /\ T' = "double"
    /\ args' = << >>
    /\ out' = None
    /\ UNCHANGED vec

Next ==
    \/ PushBack
    \/ Clear
    \/ CallBinaryStep
    \/ CallHeaviside
    \/ CallLeakyRectifiedLinearUnit
    \/ CallMaxout
    \/ CallParametricRectifiedLinearUnit
    \/ CallRectifiedLinearUnit
    \/ CallScaledExponentialLinearUnit
    \/ CallSoftplus
    \/ Return

Spec == Init /\ [][Next]_vars

---------------------------------------------------------------------------
(* The claims.  In a state with op = "F", args holds the arguments of the  *)
(* call of F that was made and out what it returned.                       *)

\* the elements of a sequence
Elements(v) == {v[i] : i \in 1..Len(v)}

\* C1: for every non-empty sequence x, Maxout(x) returns the maximum element
\* value of x: the result is a member of x and no element of x is greater
C1_MaxoutReturnsMaximum ==
    (op = "MaxoutFn" /\ vec # << >>) =>
        /\ out \in Elements(vec)
        /\ \A e \in Elements(vec) : ~Gt(e, out)

\* what the caller of C2 is to see: an invalid-argument failure, not a value
InvalidArgument == [cls |-> "invalid_argument", n |-> 0]

\* C2: Maxout called with an empty sequence signals an invalid-argument
\* failure instead of returning a value
C2_MaxoutEmptySignalsInvalidArgument ==
    (op = "MaxoutFn" /\ vec = << >>) => out = InvalidArgument

\* C3: ReLU(x) returns 0 for every x <= 0 (x = 0 included) and x unchanged
\* for every x > 0
C3_ReLU ==
    op = "RectifiedLinearUnitFn" =>
        /\ Le(args[1], Zero) => out = Zero
        /\ Gt(args[1], Zero) => out = args[1]

C3_Witness ==
    /\ op = "RectifiedLinearUnitFn"
    /\ T = "float"
    /\ args[1] = Zero
    /\ out = Zero

\* C4: BinaryStep(x) returns 0 for every x < 0 and 1 for every x >= 0, zero
\* maps to 1, and the result is always one of the integers 0 and 1
C4_BinaryStep ==
    op = "BinaryStepFn" =>
        /\ out.cls = "ushort"
        /\ out.n \in {0, 1}
        /\ Lt(args[1], Zero) => out.n = 0
        /\ Ge(args[1], Zero) => out.n = 1

C4_Witness ==
    /\ op = "BinaryStepFn"
    /\ args[1] = Zero
    /\ out = UShort(1)

\* C5: ScaledELU(0) = 0; for every x >= 0 ScaledELU(x) is the linear branch
\* 1.0507 * x; the exponential branch lambda * alpha * (e^x - 1) is the
\* result only for x < 0
C5_ScaledELU ==
    op = "ScaledExponentialLinearUnitFn" =>
        LET x == args[1]
        IN  /\ x = Zero => out = Zero
            /\ Ge(x, Zero) => out = Convert(T, Mul("double", Lit_1_0507, x))
            /\ Lt(x, Zero) =>
                  out = Convert(T, Mul("double",
                                       Mul("double", Lit_1_0507, Lit_1_67326),
                                       Sub(T, Exp(T, x), IntLit(1))))

C5_Witness ==
    /\ op = "ScaledExponentialLinearUnitFn"
    /\ args[1] = IntLit(2)
    /\ out = Convert(T, Mul("double", Lit_1_0507, IntLit(2)))
    /\ out # IntLit(2)

\* the number of halves a finite argument of the caller is
Halves(v) == v.n \div Pow2(FracBits - 1)

\* C6: Heaviside(a,x,b) returns 1 exactly when a*x + b > 0 and 0 otherwise;
\* when a*x + b = 0 the result is 0, so Heaviside(1,0,0) = 0
C6_Heaviside ==
    op = "HeavisideFn" =>
        LET a == args[1]
            x == args[2]
            b == args[3]
        IN  /\ out \in {Zero, IntLit(1)}
            /\ out = IntLit(1) <=> Gt(Add(T, Mul(T, a, x), b), Zero)
            /\ (IsFin(a) /\ IsFin(x) /\ IsFin(b)) =>
                  (out = IntLit(1) <=>
                      Halves(a) * Halves(x) + 2 * Halves(b) > 0)
            /\ (a = IntLit(1) /\ x = Zero /\ b = Zero) => out = Zero

C6_Witness ==
    /\ op = "HeavisideFn"
    /\ args = <<IntLit(1), IntLit(-1), IntLit(1)>>
    /\ out = Zero

\* C7, as claimed: ParametricReLU(a,x) returns a*x for x < 0 and x for
\* x >= 0, and LeakyReLU(x) = ParametricReLU(0.01, x) for every x
C7_LeakyIsParametricWithSlope ==
    /\ op = "ParametricRectifiedLinearUnitFn" =>
          /\ Lt(args[2], Zero) => out = Mul(T, args[1], args[2])
          /\ Ge(args[2], Zero) => out = args[2]
    /\ op = "LeakyRectifiedLinearUnitFn" =>
          out = ParametricRectifiedLinearUnitFn(T, Convert(T, Lit_0_01), args[1])

\* C7, amended: ParametricReLU(a,x) returns a*x, a product of type T, for
\* x < 0 and x for x >= 0; LeakyReLU(x) returns x for x >= 0 and, for x < 0,
\* the double product 0.01 * x converted to T; the two agree for every x
\* when T is double, and for every x >= 0 in every T
C7_LeakyIsParametricInDouble ==
    /\ op = "ParametricRectifiedLinearUnitFn" =>
          /\ Lt(args[2], Zero) => out = Mul(T, args[1], args[2])
          /\ Ge(args[2], Zero) => out = args[2]
    /\ op = "LeakyRectifiedLinearUnitFn" =>
          /\ Lt(args[1], Zero) =>
                out = Convert(T, Mul("double", Lit_0_01, args[1]))
          /\ Ge(args[1], Zero) => out = args[1]
          /\ (T = "double" \/ Ge(args[1], Zero)) =>
                out = ParametricRectifiedLinearUnitFn(T, Convert(T, Lit_0_01),
                                                      args[1])

C7_Witness ==
    /\ op = "LeakyRectifiedLinearUnitFn"
    /\ T = "double"
    /\ args[1] = Half(-3)
    /\ out = ParametricRectifiedLinearUnitFn(T, Lit_0_01, args[1])
    /\ Lt(out, Zero)
    /\ Gt(out, args[1])

\* C9, as claimed: Softplus(x) is strictly greater than ReLU(x) for every
\* finite x
C9_SoftplusAboveReLU ==
    (op = "SoftplusFn" /\ IsFin(args[1])) =>
        Gt(out, RectifiedLinearUnitFn(T, args[1]))

\* C9, amended: Softplus(x) >= ReLU(x) for every finite x, and strictly
\* greater for every x with |x| <= 2
C9_SoftplusNotBelowReLU ==
    (op = "SoftplusFn" /\ IsFin(args[1])) =>
        /\ Ge(out, RectifiedLinearUnitFn(T, args[1]))
        /\ (Le(args[1], IntLit(2)) /\ Ge(args[1], IntLit(-2))) =>
              Gt(out, RectifiedLinearUnitFn(T, args[1]))

C9_Witness ==
    /\ op = "SoftplusFn"
    /\ T = "double"
    /\ IsFin(args[1])
    /\ Lt(args[1], Zero)
    /\ out = Zero

\* C10: Maxout only reads its input sequence: after a call the caller's
\* sequence has the same elements in the same order as before the call
C10_MaxoutLeavesVector == [][op' = "MaxoutFn" => vec' = vec]_vars

C10_Witness ==
    /\ op = "MaxoutFn"
    /\ Len(vec) >= 2
    /\ vec[1] # vec[2]

=============================================================================
